---- MODULE Spec2Model ----
(***************************************************************************)
(* The KEDA external scaler for Redis lists (main.go): a gRPC server that  *)
(* keeps one RedisScaler per scaled object in the map                      *)
(* RedisExternalScalerServer.scalers and answers New, Close, IsActive,     *)
(* GetMetricSpec and GetMetrics.                                           *)
(*                                                                         *)
(* Go strings are modelled as sequences of one-character strings, so that  *)
(* concatenation (getScalerUniqueName) and strconv.Atoi work on the        *)
(* characters.  Map keys of the metadata are the literal key names.        *)
(***************************************************************************)
EXTENDS Integers, Sequences, FiniteSets, TLC

VARIABLES
    scalersIsNil,   \* s.scalers == nil (the zero value of the map field)
    scalers,        \* s.scalers: unique name -> RedisScaler (empty while nil)
    call,           \* the RPC that returned last: request, store reply, response, error
    prev,           \* s.scalers (and its nil-ness) when that RPC was entered
    live,           \* names with a successful New and no completed Close since
    lastNew,        \* for each such name, the metadata of its latest successful New
    handlers,       \* concurrent server: each gRPC worker's call in progress
    fatal,          \* concurrent server: the Go runtime has thrown a fatal error
    metadata,       \* parser harness: the metadata mapping handed to parseRedisMetadata
    parsed          \* parser harness: what parseRedisMetadata returned for it

vars == <<scalersIsNil, scalers, call, prev, live, lastNew, handlers, fatal,
          metadata, parsed>>

-----------------------------------------------------------------------------
(* Bounds of the model. *)

\* queue lengths the store answers with: 0..MaxQueueLen
MaxQueueLen == 2

\* longest listLength text handed to the parser harness
MaxValLen == 2

\* RPCs the concurrent server receives
MaxCalls == 3

-----------------------------------------------------------------------------
(* Constants of main.go. *)

listLengthMetricName == <<"R","e","d","i","s","L","i","s","t","L","e","n","g","t","h">>

defaultTargetListLength == 5

defaultRedisAddress ==
    <<"r","e","d","i","s","-","m","a","s","t","e","r",".",
      "d","e","f","a","u","l","t",".","s","v","c",".",
      "c","l","u","s","t","e","r",".","l","o","c","a","l",":","6","3","7","9">>

defaultRedisPassword == <<>>

-----------------------------------------------------------------------------
(* Values. *)

\* Go's nil error, and errors as (format, argument).
NoError == [msg |-> "nil", arg |-> <<>>]

Errorf(msg, arg) == [msg |-> msg, arg |-> arg]

\* a nil response pointer
NilResponse == [type |-> "nil"]

\* map[string]... with no keys
EmptyMap == [k \in {} |-> <<>>]

\* m with key k set to v (Go: m[k] = v)
MapPut(m, k, v) == [x \in (DOMAIN m) \cup {k} |-> IF x = k THEN v ELSE m[x]]

\* m without key k (Go: delete(m, k))
MapDelete(m, k) == [x \in (DOMAIN m) \ {k} |-> m[x]]

-----------------------------------------------------------------------------
(* strconv.Atoi, on texts shorter than 19 characters (its fast path), and  *)
(* on the empty text.                                                      *)

Digits == {"0", "1", "2", "3", "4", "5", "6", "7", "8", "9"}

DigitVal(ch) ==
    CASE ch = "0" -> 0 [] ch = "1" -> 1 [] ch = "2" -> 2 [] ch = "3" -> 3
      [] ch = "4" -> 4 [] ch = "5" -> 5 [] ch = "6" -> 6 [] ch = "7" -> 7
      [] ch = "8" -> 8 [] ch = "9" -> 9

RECURSIVE AtoiLoop(_, _, _)
\* for _, ch := range s { if ch is no digit: syntax error; n = n*10 + ch }
AtoiLoop(str, i, n) ==
    IF i > Len(str) THEN [n |-> n, ok |-> TRUE]
    ELSE IF str[i] \notin Digits THEN [n |-> 0, ok |-> FALSE]
    ELSE AtoiLoop(str, i + 1, n * 10 + DigitVal(str[i]))

Atoi(str) ==
    LET syntaxError == [n |-> 0, err |-> Errorf("strconv.Atoi: invalid syntax", str)]
    IN  IF Len(str) = 0 THEN syntaxError
        ELSE LET signed == str[1] \in {"-", "+"}
                 body   == IF signed THEN Tail(str) ELSE str
             IN  IF Len(body) < 1 THEN syntaxError
                 ELSE LET r == AtoiLoop(body, 1, 0)
                      IN  IF ~r.ok THEN syntaxError
                          ELSE [n   |-> IF str[1] = "-" THEN 0 - r.n ELSE r.n,
                                err |-> NoError]

-----------------------------------------------------------------------------
(* parseRedisMetadata. *)

NilScaler == [nil |-> TRUE]

\* the parser falling back to the default threshold on an unparseable listLength
parseLenientLength(md) ==
    LET conv == Atoi(md["listLength"])
    IN  IF "listName" \notin DOMAIN md
        THEN [scaler |-> NilScaler, err |-> Errorf("no list name given", <<>>)]
        ELSE [scaler |->
                [address    |-> IF "address" \in DOMAIN md /\ md["address"] # <<>>
                                THEN md["address"] ELSE defaultRedisAddress,
                 password   |-> IF "password" \in DOMAIN md /\ md["password"] # <<>>
                                THEN md["password"] ELSE defaultRedisPassword,
                 listName   |-> md["listName"],
                 listLength |-> IF "listLength" \in DOMAIN md /\ conv.err = NoError
                                THEN conv.n ELSE defaultTargetListLength],
              err |-> NoError]

\* the parser with an empty list name as the default of listName
parseDefaultingListName(md) ==
    LET conv == Atoi(md["listLength"])
    IN  IF "listLength" \in DOMAIN md /\ conv.err # NoError
        THEN [scaler |-> NilScaler,
              err    |-> Errorf("List length parsing error", conv.err.arg)]
        ELSE [scaler |->
                [address    |-> IF "address" \in DOMAIN md /\ md["address"] # <<>>
                                THEN md["address"] ELSE defaultRedisAddress,
                 password   |-> IF "password" \in DOMAIN md /\ md["password"] # <<>>
                                THEN md["password"] ELSE defaultRedisPassword,
                 listName   |-> IF "listName" \in DOMAIN md
                                THEN md["listName"] ELSE <<>>,
                 listLength |-> IF "listLength" \in DOMAIN md
                                THEN conv.n ELSE defaultTargetListLength],
              err |-> NoError]

\* the parser taking an address or password key as given, empty or not
parseKeepingEmpty(md) ==
    LET conv == Atoi(md["listLength"])
    IN  IF "listLength" \in DOMAIN md /\ conv.err # NoError
        THEN [scaler |-> NilScaler,
              err    |-> Errorf("List length parsing error", conv.err.arg)]
        ELSE IF "listName" \notin DOMAIN md
        THEN [scaler |-> NilScaler, err |-> Errorf("no list name given", <<>>)]
        ELSE [scaler |->
                [address    |-> IF "address" \in DOMAIN md
                                THEN md["address"] ELSE defaultRedisAddress,
                 password   |-> IF "password" \in DOMAIN md
                                THEN md["password"] ELSE defaultRedisPassword,
                 listName   |-> md["listName"],
                 listLength |-> IF "listLength" \in DOMAIN md
                                THEN conv.n ELSE defaultTargetListLength],
              err |-> NoError]

parseRedisMetadata(md) ==
    LET conv == Atoi(md["listLength"])
    IN  IF "listLength" \in DOMAIN md /\ conv.err # NoError
        THEN [scaler |-> NilScaler,
              err    |-> Errorf("List length parsing error", conv.err.arg)]
        ELSE IF "listName" \notin DOMAIN md
        THEN [scaler |-> NilScaler, err |-> Errorf("no list name given", <<>>)]
        ELSE [scaler |->
                [address    |-> IF "address" \in DOMAIN md /\ md["address"] # <<>>
                                THEN md["address"] ELSE defaultRedisAddress,
                 password   |-> IF "password" \in DOMAIN md /\ md["password"] # <<>>
                                THEN md["password"] ELSE defaultRedisPassword,
                 listName   |-> md["listName"],
                 listLength |-> IF "listLength" \in DOMAIN md
                                THEN conv.n ELSE defaultTargetListLength],
              err |-> NoError]

-----------------------------------------------------------------------------
(* The handlers, as functions of the server's map and the request.  Each   *)
(* yields the map it leaves behind, the response and the error.            *)

\* the unique name that forgets the object's name
getScalerUniqueNameOfNamespace(scaledObjectRef) ==
    scaledObjectRef.Namespace \o <<"/">>

getScalerUniqueName(scaledObjectRef) ==
    scaledObjectRef.Namespace \o <<"/">> \o scaledObjectRef.Name

\* client.LLen(listName) on a fresh client for (address, password): the
\* store's reply is the environment's; a failed command yields (-1, err).
\* the query that drops the command's error
getRedisListLengthIgnoringErr(address, password, listName, reply) ==
    IF reply.err # NoError
    THEN [val |-> -1, err |-> NoError]
    ELSE [val |-> reply.val, err |-> NoError]

getRedisListLength(address, password, listName, reply) ==
    IF reply.err # NoError
    THEN [val |-> -1, err |-> reply.err]
    ELSE [val |-> reply.val, err |-> NoError]

\* the arguments of one getRedisListLength call
Query(scalerRef) ==
    [address  |-> scalerRef.address,
     password |-> scalerRef.password,
     listName |-> scalerRef.listName]

\* New that stores what the parser returned before looking at its error
NewStoringFirst(isNil, m, request) ==
    LET name == getScalerUniqueName(request.ScaledObjectRef)
        p    == parseRedisMetadata(request.Metadata)
    IN  IF p.err # NoError
        THEN [isNil |-> FALSE, scalers |-> MapPut(m, name, p.scaler),
              resp |-> NilResponse, err |-> p.err, queries |-> <<>>]
        ELSE [isNil |-> FALSE, scalers |-> MapPut(m, name, p.scaler),
              resp |-> [type |-> "Empty"], err |-> NoError, queries |-> <<>>]

\* New that fills the fields the metadata omits from the entry it replaces
NewMerging(isNil, m, request) ==
    LET name == getScalerUniqueName(request.ScaledObjectRef)
        md   == request.Metadata
        p    == parseRedisMetadata(md)
        old  == m[name]
    IN  IF p.err # NoError
        THEN [isNil |-> FALSE, scalers |-> m,
              resp |-> NilResponse, err |-> p.err, queries |-> <<>>]
        ELSE IF name \notin DOMAIN m
        THEN [isNil |-> FALSE, scalers |-> MapPut(m, name, p.scaler),
              resp |-> [type |-> "Empty"], err |-> NoError, queries |-> <<>>]
        ELSE [isNil |-> FALSE,
              scalers |-> MapPut(m, name,
                  [address    |-> IF "address" \in DOMAIN md
                                  THEN p.scaler.address ELSE old.address,
                   password   |-> IF "password" \in DOMAIN md
                                  THEN p.scaler.password ELSE old.password,
                   listName   |-> p.scaler.listName,
                   listLength |-> IF "listLength" \in DOMAIN md
                                  THEN p.scaler.listLength ELSE old.listLength]),
              resp |-> [type |-> "Empty"], err |-> NoError, queries |-> <<>>]

New(isNil, m, request) ==
    LET name == getScalerUniqueName(request.ScaledObjectRef)
        p    == parseRedisMetadata(request.Metadata)
    IN  IF p.err # NoError
        THEN [isNil |-> FALSE, scalers |-> m,
              resp |-> NilResponse, err |-> p.err, queries |-> <<>>]
        ELSE [isNil |-> FALSE, scalers |-> MapPut(m, name, p.scaler),
              resp |-> [type |-> "Empty"], err |-> NoError, queries |-> <<>>]

\* Close that acknowledges without deleting
CloseKeeping(isNil, m, request) ==
    [isNil |-> isNil, scalers |-> m,
     resp |-> [type |-> "Empty"], err |-> NoError, queries |-> <<>>]

\* Close that, like the queries, fails on a name it cannot find
CloseStrict(isNil, m, request) ==
    LET name == getScalerUniqueName(request.ScaledObjectRef)
    IN  IF name \in DOMAIN m
        THEN [isNil |-> isNil, scalers |-> MapDelete(m, name),
              resp |-> [type |-> "Empty"], err |-> NoError, queries |-> <<>>]
        ELSE [isNil |-> isNil, scalers |-> m, resp |-> NilResponse,
              err |-> Errorf("Cannot find scaler", name), queries |-> <<>>]

Close(isNil, m, request) ==
    LET name == getScalerUniqueName(request.ScaledObjectRef)
    IN  [isNil   |-> isNil,
         scalers |-> IF name \in DOMAIN m THEN MapDelete(m, name) ELSE m,
         resp    |-> [type |-> "Empty"], err |-> NoError, queries |-> <<>>]

\* IsActive that drops the entry whose store query failed
IsActiveEvicting(isNil, m, request, reply) ==
    LET name == getScalerUniqueName(request.ScaledObjectRef)
    IN  IF name \in DOMAIN m
        THEN LET r == getRedisListLength(m[name].address, m[name].password,
                                         m[name].listName, reply)
             IN  IF r.err # NoError
                 THEN [isNil |-> isNil, scalers |-> MapDelete(m, name),
                       resp |-> NilResponse,
                       err |-> r.err, queries |-> <<Query(m[name])>>]
                 ELSE [isNil |-> isNil, scalers |-> m,
                       resp |-> [type |-> "IsActiveResponse", Result |-> r.val > 0],
                       err |-> NoError, queries |-> <<Query(m[name])>>]
        ELSE [isNil |-> isNil, scalers |-> m, resp |-> NilResponse,
              err |-> Errorf("Cannot find scaler", name), queries |-> <<>>]

\* IsActive that reports an unknown name as inactive
IsActiveLenient(isNil, m, request, reply) ==
    LET name == getScalerUniqueName(request.ScaledObjectRef)
    IN  IF name \in DOMAIN m
        THEN LET r == getRedisListLength(m[name].address, m[name].password,
                                         m[name].listName, reply)
             IN  IF r.err # NoError
                 THEN [isNil |-> isNil, scalers |-> m, resp |-> NilResponse,
                       err |-> r.err, queries |-> <<Query(m[name])>>]
                 ELSE [isNil |-> isNil, scalers |-> m,
                       resp |-> [type |-> "IsActiveResponse", Result |-> r.val > 0],
                       err |-> NoError, queries |-> <<Query(m[name])>>]
        ELSE [isNil |-> isNil, scalers |-> m,
              resp |-> [type |-> "IsActiveResponse", Result |-> FALSE],
              err |-> NoError, queries |-> <<>>]

IsActive(isNil, m, request, reply) ==
    LET name == getScalerUniqueName(request.ScaledObjectRef)
    IN  IF name \in DOMAIN m
        THEN LET r == getRedisListLength(m[name].address, m[name].password,
                                         m[name].listName, reply)
             IN  IF r.err # NoError
                 THEN [isNil |-> isNil, scalers |-> m, resp |-> NilResponse,
                       err |-> r.err, queries |-> <<Query(m[name])>>]
                 ELSE [isNil |-> isNil, scalers |-> m,
                       resp |-> [type |-> "IsActiveResponse", Result |-> r.val > 0],
                       err |-> NoError, queries |-> <<Query(m[name])>>]
        ELSE [isNil |-> isNil, scalers |-> m, resp |-> NilResponse,
              err |-> Errorf("Cannot find scaler", name), queries |-> <<>>]

\* GetMetricSpec that reports the default threshold
GetMetricSpecDefaultTarget(isNil, m, request) ==
    LET name == getScalerUniqueName(request.ScaledObjectRef)
    IN  IF name \in DOMAIN m
        THEN [isNil |-> isNil, scalers |-> m,
              resp |-> [type |-> "GetMetricSpecResponse",
                        MetricSpecs |-> << [MetricName |-> listLengthMetricName,
                                            TargetSize |-> defaultTargetListLength] >>],
              err |-> NoError, queries |-> <<>>]
        ELSE [isNil |-> isNil, scalers |-> m, resp |-> NilResponse,
              err |-> Errorf("Cannot find scaler", name), queries |-> <<>>]

GetMetricSpec(isNil, m, request) ==
    LET name == getScalerUniqueName(request.ScaledObjectRef)
    IN  IF name \in DOMAIN m
        THEN [isNil |-> isNil, scalers |-> m,
              resp |-> [type |-> "GetMetricSpecResponse",
                        MetricSpecs |-> << [MetricName |-> listLengthMetricName,
                                            TargetSize |-> m[name].listLength] >>],
              err |-> NoError, queries |-> <<>>]
        ELSE [isNil |-> isNil, scalers |-> m, resp |-> NilResponse,
              err |-> Errorf("Cannot find scaler", name), queries |-> <<>>]

\* GetMetrics that asks the store a second time when the first query failed
GetMetricsRetrying(isNil, m, request, reply) ==
    LET name == getScalerUniqueName(request.ScaledObjectRef)
    IN  IF name \in DOMAIN m
        THEN LET r == getRedisListLength(m[name].address, m[name].password,
                                         m[name].listName, reply)
             IN  IF r.err # NoError
                 THEN [isNil |-> isNil, scalers |-> m, resp |-> NilResponse,
                       err |-> r.err, queries |-> <<Query(m[name]), Query(m[name])>>]
                 ELSE [isNil |-> isNil, scalers |-> m,
                       resp |-> [type |-> "GetMetricsResponse",
                                 MetricValues |-> << [MetricName  |-> listLengthMetricName,
                                                      MetricValue |-> r.val] >>],
                       err |-> NoError, queries |-> <<Query(m[name])>>]
        ELSE [isNil |-> isNil, scalers |-> m, resp |-> NilResponse,
              err |-> Errorf("Cannot find scaler", name), queries |-> <<>>]

\* GetMetrics that names the value after the request's metricName
GetMetricsEchoingName(isNil, m, request, reply) ==
    LET name == getScalerUniqueName(request.ScaledObjectRef)
    IN  IF name \in DOMAIN m
        THEN LET r == getRedisListLength(m[name].address, m[name].password,
                                         m[name].listName, reply)
             IN  IF r.err # NoError
                 THEN [isNil |-> isNil, scalers |-> m, resp |-> NilResponse,
                       err |-> r.err, queries |-> <<Query(m[name])>>]
                 ELSE [isNil |-> isNil, scalers |-> m,
                       resp |-> [type |-> "GetMetricsResponse",
                                 MetricValues |-> << [MetricName  |-> request.MetricName,
                                                      MetricValue |-> r.val] >>],
                       err |-> NoError, queries |-> <<Query(m[name])>>]
        ELSE [isNil |-> isNil, scalers |-> m, resp |-> NilResponse,
              err |-> Errorf("Cannot find scaler", name), queries |-> <<>>]

GetMetrics(isNil, m, request, reply) ==
    LET name == getScalerUniqueName(request.ScaledObjectRef)
    IN  IF name \in DOMAIN m
        THEN LET r == getRedisListLength(m[name].address, m[name].password,
                                         m[name].listName, reply)
             IN  IF r.err # NoError
                 THEN [isNil |-> isNil, scalers |-> m, resp |-> NilResponse,
                       err |-> r.err, queries |-> <<Query(m[name])>>]
                 ELSE [isNil |-> isNil, scalers |-> m,
                       resp |-> [type |-> "GetMetricsResponse",
                                 MetricValues |-> << [MetricName  |-> listLengthMetricName,
                                                      MetricValue |-> r.val] >>],
                       err |-> NoError, queries |-> <<Query(m[name])>>]
        ELSE [isNil |-> isNil, scalers |-> m, resp |-> NilResponse,
              err |-> Errorf("Cannot find scaler", name), queries |-> <<>>]

-----------------------------------------------------------------------------
(* Inputs. *)

\* (namespace, name) pairs of the requests; the first two have the same
\* unique name, a/b/c
Refs ==
    { [Namespace |-> <<"a", "/", "b">>, Name |-> <<"c">>],
      [Namespace |-> <<"a">>,           Name |-> <<"b", "/", "c">>],
      [Namespace |-> <<"a">>,           Name |-> <<"c">>] }

NoSlashNamespace(ref) == \A i \in 1..Len(ref.Namespace) : ref.Namespace[i] # "/"

\* every mapping that gives each key of ks either no value or one of vals[k]
RECURSIVE Mappings(_, _)
Mappings(ks, vals) ==
    IF ks = {} THEN {EmptyMap}
    ELSE LET k    == CHOOSE x \in ks : TRUE
             rest == Mappings(ks \ {k}, vals)
         IN  rest \cup { MapPut(r, k, v) : r \in rest, v \in vals[k] }

\* metadata of the New requests
NewMetadata ==
    Mappings({"listLength", "listName", "address", "password"},
             [k \in {"listLength", "listName", "address", "password"} |->
                CASE k = "listLength" -> { <<"1", "0">>, <<"x">> }
                  [] k = "listName"   -> { <<"j">>, <<"k">> }
                  [] k = "address"    -> { <<"h">> }
                  [] k = "password"   -> { <<"p">> }])

\* metricName of the GetMetrics requests
MetricNames == { listLengthMetricName, <<"o">> }

StoreError == Errorf("dial tcp: connection refused", <<>>)

\* what the store answers to one LLEN
Replies ==
    { [err |-> StoreError, val |-> 0] }
    \cup { [err |-> NoError, val |-> n] : n \in 0..MaxQueueLen }

NoReply == [err |-> NoError, val |-> 0]

-----------------------------------------------------------------------------
(* The server: one action per RPC.  Handlers run one at a time here.       *)

NotParsed == [scaler |-> NilScaler, err |-> NoError]

NoCall ==
    [op |-> "none", request |-> [ScaledObjectRef |-> [Namespace |-> <<>>, Name |-> <<>>]],
     reply |-> NoReply, resp |-> NilResponse, err |-> NoError, queries |-> <<>>]

Init ==
    /\ scalersIsNil = TRUE
    /\ scalers = EmptyMap
    /\ call = NoCall
    /\ prev = [isNil |-> TRUE, scalers |-> EmptyMap]
    /\ live = {}
    /\ lastNew = EmptyMap
    /\ handlers = EmptyMap
    /\ fatal = FALSE
    /\ metadata = EmptyMap
    /\ parsed = NotParsed

\* the state after a handler returned r for request req
Returned(op, req, reply, r) ==
    /\ scalersIsNil' = r.isNil
    /\ scalers' = r.scalers
    /\ prev' = [isNil |-> scalersIsNil, scalers |-> scalers]
    /\ call' = [op |-> op, request |-> req, reply |-> reply,
                resp |-> r.resp, err |-> r.err, queries |-> r.queries]
    /\ UNCHANGED <<handlers, fatal, metadata, parsed>>

RpcNew ==
    \E ref \in Refs, md \in NewMetadata :
        LET req == [ScaledObjectRef |-> ref, Metadata |-> md]
            r   == New(scalersIsNil, scalers, req)
        IN  /\ Returned("New", req, NoReply, r)
            /\ live' = IF r.err = NoError
                       THEN live \cup {getScalerUniqueName(ref)} ELSE live
            /\ lastNew' = IF r.err = NoError
                          THEN MapPut(lastNew, getScalerUniqueName(ref), md)
                          ELSE lastNew

RpcClose ==
    \E ref \in Refs :
        LET req == [ScaledObjectRef |-> ref]
            r   == Close(scalersIsNil, scalers, req)
        IN  /\ Returned("Close", req, NoReply, r)
            /\ live' = live \ {getScalerUniqueName(ref)}
            /\ lastNew' = MapDelete(lastNew, getScalerUniqueName(ref))

RpcIsActive ==
    \E ref \in Refs, reply \in Replies :
        LET req == [ScaledObjectRef |-> ref]
        IN  /\ Returned("IsActive", req, reply, IsActive(scalersIsNil, scalers, req, reply))
            /\ UNCHANGED <<live, lastNew>>

RpcGetMetricSpec ==
    \E ref \in Refs :
        LET req == [ScaledObjectRef |-> ref]
        IN  /\ Returned("GetMetricSpec", req, NoReply, GetMetricSpec(scalersIsNil, scalers, req))
            /\ UNCHANGED <<live, lastNew>>

RpcGetMetrics ==
    \E ref \in Refs, mn \in MetricNames, reply \in Replies :
        LET req == [ScaledObjectRef |-> ref, MetricName |-> mn]
        IN  /\ Returned("GetMetrics", req, reply, GetMetrics(scalersIsNil, scalers, req, reply))
            /\ UNCHANGED <<live, lastNew>>

Next == RpcNew \/ RpcClose \/ RpcIsActive \/ RpcGetMetricSpec \/ RpcGetMetrics

Spec == Init /\ [][Next]_vars

-----------------------------------------------------------------------------
(* The parser alone: parseRedisMetadata applied to one metadata mapping.   *)

RECURSIVE Texts(_, _)
\* every text of at most n characters of the alphabet
Texts(alphabet, n) ==
    IF n = 0 THEN { <<>> }
    ELSE LET shorter == Texts(alphabet, n - 1)
         IN  shorter \cup { Append(t, ch) : t \in shorter, ch \in alphabet }

ParseMetadata ==
    Mappings({"listLength", "listName", "address", "password", "other"},
             [k \in {"listLength", "listName", "address", "password", "other"} |->
                CASE k = "listLength" -> Texts({"7", "0", "-", "+", "x"}, MaxValLen)
                  [] k = "listName"   -> { <<>>, <<"j">> }
                  [] k = "address"    -> { <<>>, <<"h">> }
                  [] k = "password"   -> { <<>>, <<"p">> }
                  [] k = "other"      -> { <<"z">> }])

ParseInit ==
    /\ scalersIsNil = TRUE
    /\ scalers = EmptyMap
    /\ call = NoCall
    /\ prev = [isNil |-> TRUE, scalers |-> EmptyMap]
    /\ live = {}
    /\ lastNew = EmptyMap
    /\ handlers = EmptyMap
    /\ fatal = FALSE
    /\ metadata \in ParseMetadata
    /\ parsed = NotParsed

Parse ==
    /\ parsed = NotParsed
    /\ parsed' = parseRedisMetadata(metadata)
    /\ UNCHANGED <<scalersIsNil, scalers, call, prev, live, lastNew, handlers, fatal,
                   metadata>>

ParseNext == Parse

ParseSpec == ParseInit /\ [][ParseNext]_vars

-----------------------------------------------------------------------------
(* The concurrent server.  grpc-go runs every RPC in a goroutine of its    *)
(* own, and main.go takes no lock: each handler is a sequence of steps,    *)
(* one per access to s.scalers and one per store query, and the steps of   *)
(* different calls interleave freely.  handlers lists the calls in the     *)
(* order they were started.                                                *)

QueryOps == {"IsActive", "GetMetricSpec", "GetMetrics"}

\* (namespace, name) pairs of the concurrent calls: two unique names
ConcRefs == { ref \in Refs : NoSlashNamespace(ref) }

\* the pair the concurrent queries are addressed at; New and Close calls are
\* addressed at it and at the other pair
QueryRef == [Namespace |-> <<"a">>, Name |-> <<"c">>]

\* metadata of the concurrent New calls: two valid mappings and an invalid one
ConcMetadata ==
    { md \in NewMetadata :
        \/ DOMAIN md = {"listName"} /\ md["listName"] = <<"j">>
        \/ DOMAIN md = {"listName", "address"} /\ md["listName"] = <<"k">>
        \/ DOMAIN md = {} }

\* replies of the store to the concurrent calls: a failure, and length 1
ConcReplies == { reply \in Replies : reply.err # NoError \/ reply.val = 1 }

\* the entry that queries addressed at ref observe in map m
Observed(m, ref) ==
    IF getScalerUniqueName(ref) \in DOMAIN m
    THEN <<m[getScalerUniqueName(ref)]>> ELSE <<>>

\* the request of call h, in the shape its handler takes
RequestOf(h) ==
    CASE h.op = "New"        -> [ScaledObjectRef |-> h.ref, Metadata |-> h.md]
      [] h.op = "GetMetrics" -> [ScaledObjectRef |-> h.ref,
                                 MetricName |-> listLengthMetricName]
      [] OTHER               -> [ScaledObjectRef |-> h.ref]

\* a call as it enters its handler
Started(op, ref, md) ==
    [op |-> op, ref |-> ref, md |-> md,
     pc |-> IF op = "New" THEN "nilcheck" ELSE "lookup",
     scalerRef |-> NilScaler, queries |-> <<>>, reply |-> NoReply,
     resp |-> NilResponse, err |-> NoError,
     expired |-> FALSE, overtaken |-> FALSE]

\* call h returns resp, err
Return(h, resp, err) == [h EXCEPT !.pc = "done", !.resp = resp, !.err = err]

\* New after lines 68-70: parse the metadata, then go on to the insert or
\* return the error
Parsed(h) ==
    LET p == parseRedisMetadata(h.md)
    IN  IF p.err # NoError
        THEN Return(h, NilResponse, p.err)
        ELSE [h EXCEPT !.pc = "insert", !.scalerRef = p.scaler]

\* had New updated the stored scaler field by field instead of storing a
\* new one, the fields read after the lookup could be those of the update
QueryArgumentsOfCurrent(scalerRef, current) ==
    IF current = <<>> THEN Query(scalerRef)
    ELSE [Query(scalerRef) EXCEPT !.listName = current[1].listName]

\* the arguments IsActive and GetMetrics hand to getRedisListLength, lines
\* 141-142 and 188: the fields of the scaler their lookup returned, read
\* through the pointer; current is what the map holds for the name by then
QueryArguments(scalerRef, current) == Query(scalerRef)

\* the steps of the accesses to s.scalers: reads and writes
ReadSteps == {"nilcheck", "lookup"}

WriteSteps == {"make", "insert", "delete"}

\* calls i and j are both at an access to s.scalers, one of them a write
Overlap(i, j) ==
    /\ i # j
    /\ handlers[i].pc \in WriteSteps
    /\ handlers[j].pc \in ReadSteps \cup WriteSteps

\* the overlap is one the map implementation can detect: a write of the map
\* itself against another access of the map itself
MapOverlap(i, j) ==
    /\ Overlap(i, j)
    /\ handlers[i].pc \in {"insert", "delete"}
    /\ handlers[j].pc \in {"insert", "delete", "lookup"}
    /\ ~scalersIsNil

Calls == 1..Len(handlers)

ConcInit ==
    /\ scalersIsNil = TRUE
    /\ scalers = EmptyMap
    /\ call = NoCall
    /\ prev = [isNil |-> TRUE, scalers |-> EmptyMap]
    /\ live = {}
    /\ lastNew = EmptyMap
    /\ handlers = <<>>
    /\ fatal = FALSE
    /\ metadata = EmptyMap
    /\ parsed = NotParsed

ConcFrame == UNCHANGED <<call, prev, live, lastNew, metadata, parsed, fatal>>

\* an RPC arrives and its goroutine enters the handler
StartCall ==
    /\ ~fatal
    /\ Len(handlers) < MaxCalls
    /\ \E op \in {"New", "Close", "IsActive", "GetMetricSpec", "GetMetrics"},
          ref \in ConcRefs, md \in ConcMetadata :
          /\ op # "New" => md = EmptyMap
          /\ op \in QueryOps => ref = QueryRef
          /\ handlers' = Append(handlers, Started(op, ref, md))
    /\ UNCHANGED <<scalersIsNil, scalers>>
    /\ ConcFrame

\* New, line 68: if s.scalers == nil
NilCheck(i) ==
    /\ ~fatal
    /\ handlers[i].pc = "nilcheck"
    /\ handlers' = [handlers EXCEPT ![i] =
                      IF scalersIsNil THEN [@ EXCEPT !.pc = "make"] ELSE Parsed(@)]
    /\ UNCHANGED <<scalersIsNil, scalers>>
    /\ ConcFrame

\* New, line 69: s.scalers = make(map[string]*RedisScaler)
Make(i) ==
    /\ ~fatal
    /\ handlers[i].pc = "make"
    /\ scalersIsNil' = FALSE
    /\ scalers' = EmptyMap
    /\ handlers' = [handlers EXCEPT ![i] = Parsed(@)]
    /\ ConcFrame

\* New, line 80: s.scalers[name] = scaler
Insert(i) ==
    /\ ~fatal
    /\ handlers[i].pc = "insert"
    /\ scalers' = MapPut(scalers, getScalerUniqueName(handlers[i].ref),
                         handlers[i].scalerRef)
    /\ handlers' = [k \in Calls |->
          IF k = i THEN Return(handlers[i], [type |-> "Empty"], NoError)
          ELSE IF handlers[k].pc \in {"send", "query"} /\ handlers[k].ref = handlers[i].ref
          THEN [handlers[k] EXCEPT !.overtaken = TRUE]
          ELSE handlers[k]]
    /\ UNCHANGED scalersIsNil
    /\ ConcFrame

\* what a lookup of name can see: the map as it is; and, when the lookup
\* overlaps another call's insert or delete, the map without the name (a
\* read of a map that is being written may miss a key)
Views(i, name) ==
    { scalers }
    \cup { MapDelete(scalers, name) : j \in { k \in Calls : MapOverlap(k, i) } }

\* lines 93, 140, 165, 187: scalerRef, ok := s.scalers[name]
Lookup(i) ==
    LET h    == handlers[i]
        name == getScalerUniqueName(h.ref)
    IN  /\ ~fatal
        /\ h.pc = "lookup"
        /\ \E view \in Views(i, name) :
            handlers' = [handlers EXCEPT ![i] =
              CASE h.op = "Close" ->
                     IF name \in DOMAIN view
                     THEN [h EXCEPT !.pc = "delete"]
                     ELSE LET r == Close(scalersIsNil, view, RequestOf(h))
                          IN  Return(h, r.resp, r.err)
                [] h.op = "GetMetricSpec" ->
                     LET r == GetMetricSpec(scalersIsNil, view, RequestOf(h))
                     IN  Return(h, r.resp, r.err)
                [] h.op = "IsActive" /\ name \notin DOMAIN view ->
                     LET r == IsActive(scalersIsNil, view, RequestOf(h), NoReply)
                     IN  Return(h, r.resp, r.err)
                [] h.op = "GetMetrics" /\ name \notin DOMAIN view ->
                     LET r == GetMetrics(scalersIsNil, view, RequestOf(h), NoReply)
                     IN  Return(h, r.resp, r.err)
                [] OTHER ->
                     [h EXCEPT !.pc = "send", !.scalerRef = view[name]]]
        /\ UNCHANGED <<scalersIsNil, scalers>>
        /\ ConcFrame

\* lines 141-142, 188: getRedisListLength(ctx, scalerRef.address,
\* scalerRef.password, scalerRef.listName) sends LLEN to the store
Send(i) ==
    LET h == handlers[i]
    IN  /\ ~fatal
        /\ h.pc = "send"
        /\ handlers' = [handlers EXCEPT ![i] =
              [h EXCEPT !.pc = "query",
                        !.queries = <<QueryArguments(h.scalerRef,
                                                     Observed(scalers, h.ref))>>]]
        /\ UNCHANGED <<scalersIsNil, scalers>>
        /\ ConcFrame

\* Close, line 94: delete(s.scalers, name)
Delete(i) ==
    /\ ~fatal
    /\ handlers[i].pc = "delete"
    /\ scalers' = MapDelete(scalers, getScalerUniqueName(handlers[i].ref))
    /\ handlers' = [k \in Calls |->
          IF k = i THEN Return(handlers[i], [type |-> "Empty"], NoError)
          ELSE IF handlers[k].pc \in {"send", "query"} /\ handlers[k].ref = handlers[i].ref
          THEN [handlers[k] EXCEPT !.overtaken = TRUE]
          ELSE handlers[k]]
    /\ UNCHANGED scalersIsNil
    /\ ConcFrame

\* lines 141-152 and 188-203: the store answers the query in flight and the
\* handler returns; the context is not consulted
Reply(i) ==
    LET h    == handlers[i]
        name == getScalerUniqueName(h.ref)
        own  == MapPut(EmptyMap, name, h.scalerRef)
    IN  /\ ~fatal
        /\ h.pc = "query"
        /\ \E reply \in ConcReplies :
              LET r == IF h.op = "IsActive"
                       THEN IsActive(FALSE, own, RequestOf(h), reply)
                       ELSE GetMetrics(FALSE, own, RequestOf(h), reply)
              IN  handlers' = [handlers EXCEPT ![i] =
                                  [Return(h, r.resp, r.err) EXCEPT !.reply = reply]]
        /\ UNCHANGED <<scalersIsNil, scalers>>
        /\ ConcFrame

\* the deadline of the RPC's context passes, or the caller cancels it, while
\* the store query is in flight
Expire(i) ==
    /\ ~fatal
    /\ handlers[i].pc = "query"
    /\ ~handlers[i].expired
    /\ handlers' = [handlers EXCEPT ![i].expired = TRUE]
    /\ UNCHANGED <<scalersIsNil, scalers>>
    /\ ConcFrame

\* the runtime notices a map write overlapping another map access and
\* throws ("concurrent map writes", "concurrent map read and map write"):
\* the process dies
Throw ==
    /\ ~fatal
    /\ \E i \in Calls, j \in Calls : MapOverlap(i, j)
    /\ fatal' = TRUE
    /\ UNCHANGED <<scalersIsNil, scalers, handlers, call, prev, live, lastNew,
                   metadata, parsed>>

ConcNext ==
    \/ StartCall
    \/ \E i \in Calls : NilCheck(i)
    \/ \E i \in Calls : Make(i)
    \/ \E i \in Calls : Insert(i)
    \/ \E i \in Calls : Lookup(i)
    \/ \E i \in Calls : Delete(i)
    \/ \E i \in Calls : Send(i)
    \/ \E i \in Calls : Reply(i)
    \/ \E i \in Calls : Expire(i)
    \/ Throw

ConcSpec == ConcInit /\ [][ConcNext]_vars

-----------------------------------------------------------------------------
(* Vocabulary of the properties. *)

\* the unique name the last RPC was addressed at
CallName == getScalerUniqueName(call.request.ScaledObjectRef)

ConfigurationError(err) ==
    err.msg \in {"List length parsing error", "no list name given"}

NotRegistered(err) == err.msg = "Cannot find scaler"

Acknowledged == call.resp = [type |-> "Empty"] /\ call.err = NoError

\* the last RPC left the map's entries, and its nil-ness, as they were
RegistryUnchanged == scalers = prev.scalers /\ scalersIsNil = prev.isNil

-----------------------------------------------------------------------------
(* C1: in every reachable state the map holds an entry for a unique name   *)
(* exactly when some New for that name returned success and no Close for   *)
(* that name has completed since; a nil map holds no entry.                *)
EntryIffRegistered ==
    /\ \A ref \in Refs :
          getScalerUniqueName(ref) \in DOMAIN scalers
              <=> getScalerUniqueName(ref) \in live
    /\ DOMAIN scalers \subseteq { getScalerUniqueName(ref) : ref \in Refs }
    /\ scalersIsNil => scalers = EmptyMap

\* a Close removed one registered name while another name stays registered
EntryIffRegisteredWitness ==
    /\ call.op = "Close"
    /\ CallName \in DOMAIN prev.scalers
    /\ CallName \notin DOMAIN scalers
    /\ live # {}

(* C2: a successful New for a name that already has an entry leaves one    *)
(* entry for the name, and each of its fields is the one parsed from this  *)
(* request's metadata alone: an omitted address, password or listLength    *)
(* takes its default, not the value of the earlier registration.           *)
ReRegisterReplaces ==
    (call.op = "New" /\ call.err = NoError /\ CallName \in DOMAIN prev.scalers) =>
        LET md == call.request.Metadata
            e  == scalers[CallName]
        IN  /\ CallName \in DOMAIN scalers
            /\ DOMAIN scalers = DOMAIN prev.scalers
            /\ e = parseRedisMetadata(md).scaler
            /\ e.listName = md["listName"]
            /\ "address" \notin DOMAIN md => e.address = defaultRedisAddress
            /\ "password" \notin DOMAIN md => e.password = defaultRedisPassword
            /\ "listLength" \notin DOMAIN md => e.listLength = defaultTargetListLength

\* the second registration omits address, password and listLength, which
\* the first one had set
ReRegisterReplacesWitness ==
    /\ call.op = "New" /\ call.err = NoError
    /\ CallName \in DOMAIN prev.scalers
    /\ DOMAIN call.request.Metadata = {"listName"}
    /\ prev.scalers[CallName].address # defaultRedisAddress
    /\ prev.scalers[CallName].password # defaultRedisPassword
    /\ prev.scalers[CallName].listLength # defaultTargetListLength

(* C3: a Close addressed at a name with no entry, the map being nil or     *)
(* not, returns the empty acknowledgement with no error and leaves the     *)
(* map as it was.                                                          *)
CloseAbsentIsNoOp ==
    (call.op = "Close" /\ CallName \notin DOMAIN prev.scalers) =>
        Acknowledged /\ RegistryUnchanged

\* a Close on the fresh server, whose map is still nil
CloseAbsentIsNoOpWitness ==
    /\ call.op = "Close"
    /\ prev.isNil
    /\ scalersIsNil

(* C4: IsActive, GetMetricSpec and GetMetrics addressed at a name with no  *)
(* entry fail with the "Cannot find scaler" error, return a nil response,  *)
(* issue no store query and leave the map as it was.                       *)
QueryUnregisteredFails ==
    (call.op \in QueryOps /\ CallName \notin DOMAIN prev.scalers) =>
        /\ NotRegistered(call.err)
        /\ call.resp = NilResponse
        /\ call.queries = <<>>
        /\ RegistryUnchanged

\* a query on a name without entry while the other name is registered
QueryUnregisteredFailsWitness ==
    /\ call.op = "IsActive"
    /\ CallName \notin DOMAIN prev.scalers
    /\ prev.scalers # EmptyMap

(* C5 as stated: a New whose metadata lacks listName fails with a          *)
(* configuration error and afterwards the map has no entry for the name,   *)
(* whatever preceded the call.                                             *)
MissingListNameLeavesNoEntry ==
    (call.op = "New" /\ "listName" \notin DOMAIN call.request.Metadata) =>
        /\ ConfigurationError(call.err)
        /\ CallName \notin DOMAIN scalers

(* C5, amended: a New whose metadata lacks listName fails with a           *)
(* configuration error and a nil response and stores nothing: afterwards   *)
(* the map has an entry for the name only if it had one before the call,   *)
(* and then that same entry.                                               *)
MissingListNameStoresNothing ==
    (call.op = "New" /\ "listName" \notin DOMAIN call.request.Metadata) =>
        /\ ConfigurationError(call.err)
        /\ call.resp = NilResponse
        /\ CallName \in DOMAIN scalers <=> CallName \in DOMAIN prev.scalers
        /\ CallName \in DOMAIN scalers => scalers[CallName] = prev.scalers[CallName]

\* a New without listName, and with a parseable listLength, for a name that
\* had no entry
MissingListNameStoresNothingWitness ==
    /\ call.op = "New"
    /\ DOMAIN call.request.Metadata = {"listLength", "address"}
    /\ call.err = Errorf("no list name given", <<>>)
    /\ CallName \notin DOMAIN prev.scalers
    /\ CallName \notin DOMAIN scalers

(* C6: a New that fails does so with a configuration error, and it leaves  *)
(* every entry of the map as it was before the call: the entry the name    *)
(* had, if any, keeps its fields, and the other names' entries too.        *)
FailedNewLeavesEntries ==
    (call.op = "New" /\ call.err # NoError) =>
        /\ ConfigurationError(call.err)
        /\ call.resp = NilResponse
        /\ scalers = prev.scalers

\* a failed New (unparseable listLength) for a registered name, while the
\* other name is registered too
FailedNewLeavesEntriesWitness ==
    /\ call.op = "New"
    /\ call.err.msg = "List length parsing error"
    /\ CallName \in DOMAIN prev.scalers
    /\ DOMAIN prev.scalers # {CallName}
    /\ scalers[CallName] = prev.scalers[CallName]

-----------------------------------------------------------------------------
(* Decimal texts, position by position. *)

\* the text without its sign
Unsigned(str) == IF Len(str) > 0 /\ str[1] \in {"-", "+"} THEN Tail(str) ELSE str

\* an optional sign followed by one or more decimal digits
IsDecimal(str) ==
    /\ Len(Unsigned(str)) > 0
    /\ \A i \in 1..Len(Unsigned(str)) : Unsigned(str)[i] \in Digits

RECURSIVE Pow10(_)
Pow10(k) == IF k = 0 THEN 1 ELSE 10 * Pow10(k - 1)

\* n is the integer the decimal text str denotes
Denotes(str, n) ==
    LET body == Unsigned(str)
        abs  == IF n < 0 THEN 0 - n ELSE n
    IN  /\ abs < Pow10(Len(body))
        /\ \A i \in 1..Len(body) :
              DigitVal(body[i]) = (abs \div Pow10(Len(body) - i)) % 10
        /\ n < 0 => str[1] = "-"
        /\ n > 0 => str[1] # "-"

(* C7: the parser sets the threshold to 5 when listLength is absent and to *)
(* the integer its text denotes when it is a decimal text; it fails with a *)
(* configuration error when listLength is present and no decimal text or   *)
(* when listName is absent, and succeeds for every other mapping.          *)
ParserThreshold ==
    parsed # NotParsed =>
        LET hasLen  == "listLength" \in DOMAIN metadata
            badLen  == hasLen /\ ~IsDecimal(metadata["listLength"])
            hasName == "listName" \in DOMAIN metadata
        IN  /\ (badLen \/ ~hasName) <=> parsed.err # NoError
            /\ parsed.err # NoError =>
                  ConfigurationError(parsed.err) /\ parsed.scaler = NilScaler
            /\ (parsed.err = NoError /\ ~hasLen) =>
                  parsed.scaler.listLength = defaultTargetListLength
            /\ (parsed.err = NoError /\ hasLen) =>
                  Denotes(metadata["listLength"], parsed.scaler.listLength)
            /\ parsed.err = NoError => parsed.scaler.listName = metadata["listName"]

\* a signed two-character listLength was parsed to a negative threshold
ParserThresholdWitness ==
    /\ parsed # NotParsed
    /\ parsed.err = NoError
    /\ "listLength" \in DOMAIN metadata
    /\ parsed.scaler.listLength < 0

(* C8: for every mapping the parser accepts, the entry's address is the    *)
(* default address when the address key is absent or empty and the given   *)
(* value otherwise, and its password is empty when the password key is     *)
(* absent or empty and the given value otherwise.                          *)
ParserAddressPassword ==
    (parsed # NotParsed /\ parsed.err = NoError) =>
        /\ parsed.scaler.address =
              IF "address" \notin DOMAIN metadata THEN defaultRedisAddress
              ELSE IF metadata["address"] = <<>> THEN defaultRedisAddress
              ELSE metadata["address"]
        /\ parsed.scaler.password =
              IF "password" \notin DOMAIN metadata THEN <<>>
              ELSE metadata["password"]

\* an accepted mapping with an empty address and a given password
ParserAddressPasswordWitness ==
    /\ parsed # NotParsed
    /\ parsed.err = NoError
    /\ "address" \in DOMAIN metadata /\ metadata["address"] = <<>>
    /\ "password" \in DOMAIN metadata /\ metadata["password"] # <<>>
    /\ parsed.scaler.address = defaultRedisAddress

(* C9: for a name with an entry, IsActive answers false when the store     *)
(* reports length 0 and true when it reports a positive length; when the   *)
(* store query fails it returns that error and a nil response.             *)
ActiveIffNonEmpty ==
    (call.op = "IsActive" /\ CallName \in DOMAIN prev.scalers) =>
        /\ call.queries = <<Query(prev.scalers[CallName])>>
        /\ (call.reply.err = NoError /\ call.reply.val = 0) =>
              /\ call.err = NoError
              /\ call.resp = [type |-> "IsActiveResponse", Result |-> FALSE]
        /\ (call.reply.err = NoError /\ call.reply.val > 0) =>
              /\ call.err = NoError
              /\ call.resp = [type |-> "IsActiveResponse", Result |-> TRUE]
        /\ call.reply.err # NoError =>
              /\ call.err = call.reply.err
              /\ call.resp = NilResponse

\* the store query of an IsActive on a registered name failed
ActiveIffNonEmptyWitness ==
    /\ call.op = "IsActive"
    /\ CallName \in DOMAIN prev.scalers
    /\ call.reply.err = StoreError
    /\ call.err = StoreError

(* C10: a successful GetMetricSpec response and a successful GetMetrics    *)
(* response each hold exactly one element, named RedisListLength whatever  *)
(* the name, the registered metadata and the request's metricName are.     *)
OneMetricFixedName ==
    /\ (call.op = "GetMetricSpec" /\ call.err = NoError) =>
          /\ call.resp.type = "GetMetricSpecResponse"
          /\ Len(call.resp.MetricSpecs) = 1
          /\ call.resp.MetricSpecs[1].MetricName = listLengthMetricName
    /\ (call.op = "GetMetrics" /\ call.err = NoError) =>
          /\ call.resp.type = "GetMetricsResponse"
          /\ Len(call.resp.MetricValues) = 1
          /\ call.resp.MetricValues[1].MetricName = listLengthMetricName

\* a GetMetrics that asked for another metric name succeeded
OneMetricFixedNameWitness ==
    /\ call.op = "GetMetrics"
    /\ call.err = NoError
    /\ call.request.MetricName # listLengthMetricName
    /\ Len(call.resp.MetricValues) = 1

(* C11: GetMetricSpec for a registered name reports as target size the     *)
(* threshold of the latest successful New for that name: the integer its   *)
(* listLength denotes, or 5 when it had none.  Failed New calls, queries   *)
(* and calls on other names in between do not change it.                   *)
TargetSizeIsLastThreshold ==
    (call.op = "GetMetricSpec" /\ CallName \in DOMAIN lastNew) =>
        /\ call.err = NoError
        /\ Len(call.resp.MetricSpecs) = 1
        /\ IF "listLength" \in DOMAIN lastNew[CallName]
           THEN Denotes(lastNew[CallName]["listLength"],
                        call.resp.MetricSpecs[1].TargetSize)
           ELSE call.resp.MetricSpecs[1].TargetSize = defaultTargetListLength

\* the latest successful New gave listLength 10 and the target size is 10
TargetSizeIsLastThresholdWitness ==
    /\ call.op = "GetMetricSpec"
    /\ CallName \in DOMAIN lastNew
    /\ "listLength" \in DOMAIN lastNew[CallName]
    /\ lastNew[CallName]["listLength"] = <<"1", "0">>
    /\ call.resp.MetricSpecs[1].TargetSize = 10

\* the answers the three queries give on map m, for every request and reply
QueryAnswers(isNil, m) ==
    [ref \in Refs |->
        [spec    |-> GetMetricSpec(isNil, m, [ScaledObjectRef |-> ref]),
         active  |-> [reply \in Replies |->
                        IsActive(isNil, m, [ScaledObjectRef |-> ref], reply)],
         metrics |-> [reply \in Replies |->
                        GetMetrics(isNil, m, [ScaledObjectRef |-> ref,
                                              MetricName |-> listLengthMetricName],
                                   reply)]]]

(* C14: IsActive, GetMetricSpec and GetMetrics leave the map as it was,    *)
(* whether they succeed, fail with "Cannot find scaler" or fail with the   *)
(* store's error; every query asked afterwards is answered as it would     *)
(* have been before the call.                                              *)
QueriesLeaveRegistry ==
    call.op \in QueryOps =>
        /\ RegistryUnchanged
        /\ DOMAIN scalers = live
        /\ QueryAnswers(scalersIsNil, scalers) = QueryAnswers(prev.isNil, prev.scalers)

\* a store failure on one name while both names are registered
QueriesLeaveRegistryWitness ==
    /\ call.op \in {"IsActive", "GetMetrics"}
    /\ call.err = StoreError
    /\ Cardinality(DOMAIN prev.scalers) = 2
    /\ Cardinality(DOMAIN scalers) = 2

(* C15: an IsActive or GetMetrics call on a registered name issues exactly *)
(* one store query, for that name's entry, and returns its outcome, a      *)
(* failure included; GetMetricSpec, New, Close and any query on a name     *)
(* without entry issue none.                                               *)
OneQueryPerCall ==
    IF call.op \in {"IsActive", "GetMetrics"} /\ CallName \in DOMAIN prev.scalers
    THEN /\ Len(call.queries) = 1
         /\ call.queries[1] = Query(prev.scalers[CallName])
         /\ call.reply.err # NoError => call.err = call.reply.err
         /\ call.reply.err = NoError => call.err = NoError
    ELSE call.queries = <<>>

\* a GetMetrics on a registered name whose single query failed
OneQueryPerCallWitness ==
    /\ call.op = "GetMetrics"
    /\ CallName \in DOMAIN prev.scalers
    /\ call.reply.err = StoreError
    /\ Len(call.queries) = 1
    /\ call.err = StoreError

NoSlash(str) == \A i \in 1..Len(str) : str[i] # "/"

(* C18 as stated: for any two different (namespace, name) pairs, a New or  *)
(* Close addressed at one never creates, replaces or deletes the entry     *)
(* that queries addressed at the other observe, also when a namespace or   *)
(* a name contains "/".                                                    *)
DistinctPairsIndependent ==
    call.op \in {"New", "Close"} =>
        \A other \in Refs \ {call.request.ScaledObjectRef} :
            Observed(scalers, other) = Observed(prev.scalers, other)

(* C18, amended: for any two different (namespace, name) pairs whose       *)
(* namespaces contain no "/", a New or Close addressed at one never        *)
(* creates, replaces or deletes the entry that queries addressed at the    *)
(* other observe, and their unique names differ.                           *)
SlashFreePairsIndependent ==
    call.op \in {"New", "Close"} =>
        \A other \in Refs \ {call.request.ScaledObjectRef} :
            (NoSlash(other.Namespace) /\ NoSlash(call.request.ScaledObjectRef.Namespace)) =>
                /\ getScalerUniqueName(other) # CallName
                /\ Observed(scalers, other) = Observed(prev.scalers, other)

\* a New replaced the entry of a/c while a/(b/c) keeps its own
SlashFreePairsIndependentWitness ==
    /\ call.op = "New" /\ call.err = NoError
    /\ call.request.ScaledObjectRef = [Namespace |-> <<"a">>, Name |-> <<"c">>]
    /\ Observed(prev.scalers, call.request.ScaledObjectRef) # <<>>
    /\ Observed(scalers, call.request.ScaledObjectRef)
          # Observed(prev.scalers, call.request.ScaledObjectRef)
    /\ Observed(scalers, [Namespace |-> <<"a">>, Name |-> <<"b", "/", "c">>]) # <<>>

-----------------------------------------------------------------------------
(* Properties of the concurrent server. *)

(* C12: every access to s.scalers is made under one mutual exclusion, so   *)
(* in no reachable state is a call at a write of s.scalers (creation,      *)
(* insert, delete) while another call is at a read or write of it.         *)
MapAccessesExclusive ==
    \A i \in Calls, j \in Calls : ~Overlap(i, j)

RECURSIVE Serial(_, _, _)
\* the maps that running the New and Close calls of the set todo one at a
\* time, in any order, leaves behind, starting from map m
Serial(todo, isNil, m) ==
    IF todo = {} THEN { m }
    ELSE UNION { LET r == IF handlers[i].op = "New"
                          THEN New(isNil, m, RequestOf(handlers[i]))
                          ELSE Close(isNil, m, RequestOf(handlers[i]))
                 IN  Serial(todo \ {i}, r.isNil, r.scalers) : i \in todo }

(* C13: when concurrently running New and Close calls have all returned,   *)
(* the map is one that running the same calls one at a time in some order  *)
(* produces; two successful New calls for different names leave both       *)
(* entries, also when they are the first calls of a server whose map is    *)
(* still nil.                                                              *)
RegistrationsSerializable ==
    (/\ handlers # <<>>
     /\ \A i \in Calls : handlers[i].pc = "done" /\ handlers[i].op \in {"New", "Close"})
        => scalers \in Serial(Calls, TRUE, EmptyMap)

DeadlineExceeded == Errorf("context deadline exceeded", <<>>)

(* C16: an IsActive or GetMetrics call whose context expired while its     *)
(* store query was in flight returns a timeout failure and no response.    *)
ExpiredQueryTimesOut ==
    \A i \in Calls :
        (handlers[i].pc = "done" /\ handlers[i].expired) =>
            /\ handlers[i].err = DeadlineExceeded
            /\ handlers[i].resp = NilResponse

\* call j is a New for the name of call i that returned success, and query
\* holds the address, password and list name of the scaler it stored
RegisteredBy(j, i, query) ==
    /\ handlers[j].op = "New"
    /\ getScalerUniqueName(handlers[j].ref) = getScalerUniqueName(handlers[i].ref)
    /\ handlers[j].pc = "done"
    /\ handlers[j].err = NoError
    /\ query = Query(parseRedisMetadata(handlers[j].md).scaler)

(* C17: under every interleaving, the address, password and list name an   *)
(* IsActive or GetMetrics call hands to the store query are those of one   *)
(* single successful New for its name, and a call whose lookup found the   *)
(* entry returns the outcome of that one query, also when the entry was    *)
(* deleted or replaced while the query was in flight.                      *)
QueryFromOneRegistration ==
    \A i \in Calls :
        LET h == handlers[i]
        IN  /\ h.queries # <<>> =>
                /\ h.op \in {"IsActive", "GetMetrics"}
                /\ Len(h.queries) = 1
                /\ \E j \in Calls : RegisteredBy(j, i, h.queries[1])
            /\ (h.pc = "done" /\ h.queries # <<>>) =>
                /\ h.reply.err # NoError =>
                      h.err = h.reply.err /\ h.resp = NilResponse
                /\ (h.reply.err = NoError /\ h.op = "IsActive") =>
                      /\ h.err = NoError
                      /\ h.resp = [type |-> "IsActiveResponse", Result |-> h.reply.val > 0]
                /\ (h.reply.err = NoError /\ h.op = "GetMetrics") =>
                      /\ h.err = NoError
                      /\ h.resp.type = "GetMetricsResponse"
                      /\ h.resp.MetricValues[1].MetricValue = h.reply.val

\* an IsActive returned its query's result although, while the query was in
\* flight, its entry was replaced or deleted and the map now holds another
\* scaler, or none, for the name
QueryFromOneRegistrationWitness ==
    \E i \in Calls :
        /\ handlers[i].op = "IsActive"
        /\ handlers[i].pc = "done"
        /\ handlers[i].overtaken
        /\ handlers[i].err = NoError
        /\ handlers[i].resp = [type |-> "IsActiveResponse", Result |-> TRUE]
        /\ Observed(scalers, handlers[i].ref) # <<handlers[i].scalerRef>>

====
